---- MODULE Spec2Model ----
(***************************************************************************)
(* Model of keyczar's OpenSSL DSA wrapper, src/cpp/src/keyczar/openssl/    *)
(* dsa.cc: DSAOpenSSL::Create, GenerateKey, GetAttributes,                 *)
(* GetPublicAttributes, WriteKeyToPEMFile, Sign, Verify and Equals.        *)
(*                                                                         *)
(* A BIGNUM* is modelled as a natural number, or NULL.  A std::string of   *)
(* bytes is a sequence of numbers 0..255.  A pointer argument is a         *)
(* sequence: <<>> for a null pointer, <<v>> for a pointer to v.            *)
(***************************************************************************)
EXTENDS Integers, Sequences, FiniteSets

VARIABLES
    keys,        \* the DSAOpenSSL objects handed to the caller: <<>> or <<obj>>
    last,        \* the call that has just returned, Idle when the caller took it
    open_files,  \* FILE* handles opened by WriteKeyToPEMFile and not closed
    src,         \* the DSAIntermediateKey the caller imports (round-trip runs)
    bin,         \* codec runs: the byte string handed to BN_bin2bn
    bn,          \* codec runs: the BIGNUM made from it, NULL before
    enc          \* codec runs: <<>> or <<the byte string read back>>

vars == <<keys, last, open_files, src, bin, bn, enc>>

(***************************************************************************)
(* Bounds of the model.                                                    *)
(***************************************************************************)
\* Largest byte value of the byte strings of the codec runs.
MaxByte == 2
\* Largest length of the byte strings of the codec runs.
MaxLen == 3
\* Largest number of non-minimal leading zero bytes in one imported record.
MaxPad == 1
\* Largest number of files WriteKeyToPEMFile opens in one run.
MaxOpen == 2

NULL == -1

(***************************************************************************)
(* Byte strings and the OpenSSL big-number conversions the file calls.     *)
(***************************************************************************)
Bytes == 0..MaxByte

ByteStrings == UNION {[1..n -> Bytes] : n \in 0..MaxLen}

\* Mutant of BN_bin2bn: the bytes read least significant first.
RECURSIVE BN_bin2bn_LittleEndian(_)
BN_bin2bn_LittleEndian(s) ==
    IF s = <<>> THEN 0 ELSE s[1] + 256 * BN_bin2bn_LittleEndian(Tail(s))

\* BN_bin2bn(s, len, NULL): the big-endian unsigned value of s; len = 0 gives 0.
RECURSIVE BN_bin2bn(_)
BN_bin2bn(s) ==
    IF s = <<>> THEN 0
    ELSE 256 * BN_bin2bn(SubSeq(s, 1, Len(s) - 1)) + s[Len(s)]

\* BN_num_bytes(a): the number of bytes of a's value; 0 for the value zero.
RECURSIVE BN_num_bytes(_)
BN_num_bytes(a) == IF a = 0 THEN 0 ELSE 1 + BN_num_bytes(a \div 256)

\* BN_bn2bin(a, to): the bytes written to `to`, big-endian, none for zero;
\* the call returns their number.
RECURSIVE BN_bn2bin(_)
BN_bn2bin(a) == IF a = 0 THEN <<>> ELSE Append(BN_bn2bin(a \div 256), a % 256)

\* One field read back, as GetPublicAttributes and GetAttributes do it:
\* size the buffer with BN_num_bytes, fill it with BN_bn2bin, fail when
\* BN_bn2bin returns another count, and assign the buffer to the string.
\* <<>> is the failure, <<bytes>> the string assigned.  For the value zero
\* the buffer is a variable-length array of no element (a compiler
\* extension that allocates nothing), BN_bn2bin writes nothing and the
\* string assigned is empty.
BnToString(a) ==
    LET num == BN_num_bytes(a)
        buf == BN_bn2bin(a)
    IN  IF Len(buf) # num THEN <<>> ELSE <<SubSeq(buf, 1, num)>>

\* BN_cmp(a, b), with OpenSSL's ordering of null pointers.
BN_cmp(a, b) ==
    IF a = NULL \/ b = NULL
    THEN IF a # NULL THEN -1 ELSE IF b # NULL THEN 1 ELSE 0
    ELSE IF a < b THEN -1 ELSE IF a > b THEN 1 ELSE 0

(***************************************************************************)
(* Records, objects and the inputs the calls are tried on.                 *)
(***************************************************************************)
\* k zero bytes put in front of s.
Pad(k, s) == [i \in 1..k |-> 0] \o s

RECURSIVE LeadingZeros(_)
LeadingZeros(s) ==
    IF s = <<>> \/ s[1] # 0 THEN 0 ELSE 1 + LeadingZeros(Tail(s))

RECURSIVE StripLeadingZeros(_)
StripLeadingZeros(s) ==
    IF s = <<>> \/ s[1] # 0 THEN s ELSE StripLeadingZeros(Tail(s))

\* The minimal encodings of 0, 1 and 256.
FieldCores == {<<>>, <<1>>, <<1, 0>>}

FieldStrings == {Pad(k, s) : k \in 0..MaxPad, s \in FieldCores}

\* DSAIntermediateKey: five std::string fields.  A std::string is never
\* missing: a record without x is one whose x is the empty string.
Records ==
    {r \in [p : FieldStrings, q : FieldStrings, g : FieldStrings,
            y : FieldStrings, x : FieldStrings] :
        LeadingZeros(r.p) + LeadingZeros(r.q) + LeadingZeros(r.g)
            + LeadingZeros(r.y) + LeadingZeros(r.x) <= MaxPad}

EmptyRecord == [p |-> <<>>, q |-> <<>>, g |-> <<>>, y |-> <<>>, x |-> <<>>]

\* A record a caller has used before.
StaleRecord == [p |-> <<1>>, q |-> <<1>>, g |-> <<1>>, y |-> <<1>>, x |-> <<1>>]

\* The DSAIntermediateKey* arguments: null, a fresh record, a used one.
OutArgs == {<<>>, <<EmptyRecord>>, <<StaleRecord>>}

\* Which allocation of Create fails: 0 none, 1 DSA_new, 2..6 the BN_bin2bn
\* of p, q, g, y, x.
AllocFails == 0..6

Digests == {<<1>>, <<2>>}

Signatures == {<<48, 1>>, <<48, 2>>}

\* The std::string* arguments of Sign: null, an empty string, a used one.
SigArgs == {<<>>, <<<<>>>>, <<<<48, 2>>>>}

\* The values DSA_generate_parameters_ex and DSA_generate_key are seen to
\* produce: positive numbers.
GenValues == {1, 256}

KeySizes == {512, 1024}

Paths == {"a.pem", "b.pem"}

\* DSA_new(): a DSA structure with every BIGNUM* null.
DSA_new ==
    [p |-> NULL, q |-> NULL, g |-> NULL, pub_key |-> NULL, priv_key |-> NULL]

\* new DSAOpenSSL(key, private_key): key_ and private_key_.  Create and
\* GenerateKey only construct an object around a DSA structure that is not
\* null, so the key_.get() == NULL tests of the methods never succeed and
\* have no branch here.
DSAOpenSSL(key, private_key) == [key_ |-> key, private_key_ |-> private_key]

\* BN_bin2bn at one call site: null when the allocation fails.
Bin2bn(s, failed) == IF failed THEN NULL ELSE BN_bin2bn(s)

\* Mutant of Create: the null check of priv_key (lines 79-80) left out.
Create_NoPrivCheck(key, private_key, fail) ==
    IF fail = 1 THEN [obj |-> <<>>, exit |-> 41]
    ELSE
    LET k4 == [p |-> Bin2bn(key.p, fail = 2), q |-> Bin2bn(key.q, fail = 3),
               g |-> Bin2bn(key.g, fail = 4),
               pub_key |-> Bin2bn(key.y, fail = 5), priv_key |-> NULL] IN
    IF k4.p = NULL THEN [obj |-> <<>>, exit |-> 49]
    ELSE IF k4.q = NULL THEN [obj |-> <<>>, exit |-> 56]
    ELSE IF k4.g = NULL THEN [obj |-> <<>>, exit |-> 63]
    ELSE IF k4.pub_key = NULL THEN [obj |-> <<>>, exit |-> 70]
    ELSE IF ~private_key
    THEN [obj |-> <<DSAOpenSSL(k4, private_key)>>, exit |-> 73]
    ELSE [obj |-> <<DSAOpenSSL([k4 EXCEPT !.priv_key = Bin2bn(key.x, fail = 6)],
                               private_key)>>,
          exit |-> 82]

(***************************************************************************)
(* DSAOpenSSL::Create(key, private_key).  obj is <<>> for a NULL return,   *)
(* exit the line of the return statement taken.                            *)
(***************************************************************************)
Create(key, private_key, fail) ==
    IF fail = 1 THEN [obj |-> <<>>, exit |-> 41]
    ELSE
    LET k1 == [DSA_new EXCEPT !.p = Bin2bn(key.p, fail = 2)] IN
    IF k1.p = NULL THEN [obj |-> <<>>, exit |-> 49]
    ELSE
    LET k2 == [k1 EXCEPT !.q = Bin2bn(key.q, fail = 3)] IN
    IF k2.q = NULL THEN [obj |-> <<>>, exit |-> 56]
    ELSE
    LET k3 == [k2 EXCEPT !.g = Bin2bn(key.g, fail = 4)] IN
    IF k3.g = NULL THEN [obj |-> <<>>, exit |-> 63]
    ELSE
    LET k4 == [k3 EXCEPT !.pub_key = Bin2bn(key.y, fail = 5)] IN
    IF k4.pub_key = NULL THEN [obj |-> <<>>, exit |-> 70]
    ELSE
    IF ~private_key THEN [obj |-> <<DSAOpenSSL(k4, private_key)>>, exit |-> 73]
    ELSE
    LET k5 == [k4 EXCEPT !.priv_key = Bin2bn(key.x, fail = 6)] IN
    IF k5.priv_key = NULL THEN [obj |-> <<>>, exit |-> 80]
    ELSE [obj |-> <<DSAOpenSSL(k5, private_key)>>, exit |-> 82]

(***************************************************************************)
(* DSAOpenSSL::GenerateKey(size).  params_ok and key_ok are the results of *)
(* DSA_generate_parameters_ex and DSA_generate_key, gen the numbers they   *)
(* put in the structure.                                                   *)
(***************************************************************************)
GenerateKey(size, new_ok, params_ok, key_ok, gen) ==
    IF ~new_ok THEN [obj |-> <<>>, exit |-> 90]
    ELSE
    LET k1 == [DSA_new EXCEPT !.p = gen.p, !.q = gen.q, !.g = gen.g] IN
    IF ~params_ok THEN [obj |-> <<>>, exit |-> 96]
    ELSE
    LET k2 == [k1 EXCEPT !.priv_key = gen.priv_key, !.pub_key = gen.pub_key] IN
    IF ~key_ok THEN [obj |-> <<>>, exit |-> 101]
    ELSE [obj |-> <<DSAOpenSSL(k2, TRUE)>>, exit |-> 104]

\* Mutant of GetPublicAttributes: the bytes of q assigned to g as well.
GetPublicAttributes_QForG(this, key) ==
    IF key = <<>> THEN [ret |-> FALSE, exit |-> 132, out |-> key]
    ELSE IF this.key_.p = NULL \/ this.key_.q = NULL \/ this.key_.g = NULL
            \/ this.key_.pub_key = NULL
    THEN [ret |-> FALSE, exit |-> 135, out |-> key]
    ELSE [ret |-> TRUE, exit |-> 173,
          out |-> <<[key[1] EXCEPT !.p = BN_bn2bin(this.key_.p),
                                   !.q = BN_bn2bin(this.key_.q),
                                   !.g = BN_bn2bin(this.key_.q),
                                   !.y = BN_bn2bin(this.key_.pub_key)]>>]

(***************************************************************************)
(* DSAOpenSSL::GetPublicAttributes(key).  key is the pointer argument;     *)
(* out is what it points to when the call returns.                         *)
(***************************************************************************)
GetPublicAttributes(this, key) ==
    IF key = <<>> THEN [ret |-> FALSE, exit |-> 132, out |-> key]
    ELSE IF this.key_.p = NULL \/ this.key_.q = NULL \/ this.key_.g = NULL
            \/ this.key_.pub_key = NULL
    THEN [ret |-> FALSE, exit |-> 135, out |-> key]
    ELSE
    LET p == BnToString(this.key_.p) IN
    IF p = <<>> THEN [ret |-> FALSE, exit |-> 142, out |-> key]
    ELSE
    LET r1 == [key[1] EXCEPT !.p = p[1]]
        q == BnToString(this.key_.q) IN
    IF q = <<>> THEN [ret |-> FALSE, exit |-> 151, out |-> <<r1>>]
    ELSE
    LET r2 == [r1 EXCEPT !.q = q[1]]
        g == BnToString(this.key_.g) IN
    IF g = <<>> THEN [ret |-> FALSE, exit |-> 160, out |-> <<r2>>]
    ELSE
    LET r3 == [r2 EXCEPT !.g = g[1]]
        pub_key == BnToString(this.key_.pub_key) IN
    IF pub_key = <<>> THEN [ret |-> FALSE, exit |-> 169, out |-> <<r3>>]
    ELSE [ret |-> TRUE, exit |-> 173, out |-> <<[r3 EXCEPT !.y = pub_key[1]]>>]

\* Mutant of GetAttributes: the assignment of x (line 125) left out.
GetAttributes_NoX(this, key) ==
    IF key = <<>> THEN [ret |-> FALSE, exit |-> 110, out |-> key]
    ELSE IF ~this.private_key_ \/ this.key_.priv_key = NULL
    THEN [ret |-> FALSE, exit |-> 113, out |-> key]
    ELSE
    LET pub == GetPublicAttributes(this, key) IN
    IF ~pub.ret THEN [ret |-> FALSE, exit |-> 116, out |-> pub.out]
    ELSE [ret |-> TRUE, exit |-> 127, out |-> pub.out]

(***************************************************************************)
(* DSAOpenSSL::GetAttributes(key).                                         *)
(***************************************************************************)
GetAttributes(this, key) ==
    IF key = <<>> THEN [ret |-> FALSE, exit |-> 110, out |-> key]
    ELSE IF ~this.private_key_ \/ this.key_.priv_key = NULL
    THEN [ret |-> FALSE, exit |-> 113, out |-> key]
    ELSE
    LET pub == GetPublicAttributes(this, key) IN
    IF ~pub.ret THEN [ret |-> FALSE, exit |-> 116, out |-> pub.out]
    ELSE
    LET priv_key == BnToString(this.key_.priv_key) IN
    IF priv_key = <<>> THEN [ret |-> FALSE, exit |-> 123, out |-> pub.out]
    ELSE [ret |-> TRUE, exit |-> 127,
          out |-> <<[pub.out[1] EXCEPT !.x = priv_key[1]]>>]

(***************************************************************************)
(* DSAOpenSSL::WriteKeyToPEMFile(path).  dest_file_ok is whether OpenFile  *)
(* returned a handle, return_value what the PEM writer returned.  opened   *)
(* and closed count the handles the call opened and closed.                *)
(***************************************************************************)
WriteKeyToPEMFile(this, path, dest_file_ok, return_value) ==
    IF ~dest_file_ok
    THEN [ret |-> FALSE, exit |-> 182, opened |-> 0, closed |-> 0, prim |-> <<>>]
    ELSE
    LET writer == IF this.private_key_ THEN "PEM_write_DSAPrivateKey"
                  ELSE "PEM_write_DSA_PUBKEY" IN
    IF return_value = 0
    THEN [ret |-> FALSE, exit |-> 192, opened |-> 1, closed |-> 0,
          prim |-> <<writer>>]
    ELSE [ret |-> TRUE, exit |-> 193, opened |-> 1, closed |-> 0,
          prim |-> <<writer>>]

\* Mutant of Sign: private_key_ not tested at line 198.
Sign_NoPrivateCheck(this, message_digest, signature, sign_ok, produced) ==
    IF signature = <<>>
    THEN [ret |-> FALSE, exit |-> 199, out |-> signature, prim |-> <<>>]
    ELSE IF ~sign_ok
    THEN [ret |-> FALSE, exit |-> 213, out |-> signature,
          prim |-> <<"DSA_size", "DSA_sign", "PrintOSSLErrors">>]
    ELSE [ret |-> TRUE, exit |-> 218, out |-> <<produced>>,
          prim |-> <<"DSA_size", "DSA_sign">>]

(***************************************************************************)
(* DSAOpenSSL::Sign(message_digest, signature).  sign_ok is whether        *)
(* DSA_sign returned 1, produced the bytes it wrote.                       *)
(***************************************************************************)
Sign(this, message_digest, signature, sign_ok, produced) ==
    IF signature = <<>> \/ ~this.private_key_
    THEN [ret |-> FALSE, exit |-> 199, out |-> signature, prim |-> <<>>]
    ELSE IF ~sign_ok
    THEN [ret |-> FALSE, exit |-> 213, out |-> signature,
          prim |-> <<"DSA_size", "DSA_sign", "PrintOSSLErrors">>]
    ELSE [ret |-> TRUE, exit |-> 218, out |-> <<produced>>,
          prim |-> <<"DSA_size", "DSA_sign">>]

(***************************************************************************)
(* DSAOpenSSL::Verify(message_digest, signature).  ret_val is what         *)
(* DSA_verify returned: 1 valid, 0 invalid, -1 error.  The return type is  *)
(* bool.                                                                   *)
(***************************************************************************)
Verify(this, message_digest, signature, ret_val) ==
    IF ret_val = 1
    THEN [ret |-> TRUE, exit |-> 236, prim |-> <<"DSA_verify">>]
    ELSE [ret |-> FALSE, exit |-> 239,
          prim |-> IF ret_val = -1 THEN <<"DSA_verify", "PrintOSSLErrors">>
                   ELSE <<"DSA_verify">>]

\* Mutant of Equals: the comparison of the private_key flags (lines
\* 243-244) left out.
Equals_NoFlagCheck(this, rhs) ==
    IF BN_cmp(this.key_.p, rhs.key_.p) # 0
       \/ BN_cmp(this.key_.q, rhs.key_.q) # 0
       \/ BN_cmp(this.key_.g, rhs.key_.g) # 0
       \/ BN_cmp(this.key_.pub_key, rhs.key_.pub_key) # 0
    THEN [ret |-> FALSE, exit |-> 251]
    ELSE IF ~this.private_key_ THEN [ret |-> TRUE, exit |-> 254]
    ELSE IF BN_cmp(this.key_.priv_key, rhs.key_.priv_key) # 0
    THEN [ret |-> FALSE, exit |-> 257]
    ELSE [ret |-> TRUE, exit |-> 259]

(***************************************************************************)
(* DSAOpenSSL::Equals(rhs).                                                *)
(***************************************************************************)
Equals(this, rhs) ==
    IF this.private_key_ # rhs.private_key_ THEN [ret |-> FALSE, exit |-> 244]
    ELSE IF BN_cmp(this.key_.p, rhs.key_.p) # 0
            \/ BN_cmp(this.key_.q, rhs.key_.q) # 0
            \/ BN_cmp(this.key_.g, rhs.key_.g) # 0
            \/ BN_cmp(this.key_.pub_key, rhs.key_.pub_key) # 0
    THEN [ret |-> FALSE, exit |-> 251]
    ELSE IF ~this.private_key_ THEN [ret |-> TRUE, exit |-> 254]
    ELSE IF BN_cmp(this.key_.priv_key, rhs.key_.priv_key) # 0
    THEN [ret |-> FALSE, exit |-> 257]
    ELSE [ret |-> TRUE, exit |-> 259]

\* Every object Create can return for the records of the model (leading
\* zero bytes do not change the object): the objects a caller can hand to
\* Equals.
KeyObjects ==
    {Create(r, b, 0).obj[1] :
        r \in [p : FieldCores, q : FieldCores, g : FieldCores,
               y : FieldCores, x : FieldCores],
        b \in BOOLEAN}

(***************************************************************************)
(* The state machine: a caller makes one call at a time and takes its      *)
(* result before the next one.                                             *)
(***************************************************************************)
Idle ==
    [op |-> "none", arg |-> <<>>, ret |-> FALSE, exit |-> 0, out |-> <<>>,
     prim |-> <<>>]

Init ==
    /\ keys = <<>>
    /\ last = Idle
    /\ open_files = 0
    /\ src = EmptyRecord
    /\ bin = <<>>
    /\ bn = NULL
    /\ enc = <<>>

CallCreate(r) ==
    /\ keys = <<>>
    /\ last = Idle
    /\ \E private_key \in BOOLEAN, fail \in AllocFails :
         LET res == Create(r, private_key, fail) IN
         /\ keys' = res.obj
         /\ last' = [op |-> "Create",
                     arg |-> [key |-> r, private_key |-> private_key,
                              fail |-> fail],
                     ret |-> res.obj # <<>>, exit |-> res.exit,
                     out |-> <<>>, prim |-> <<>>]
    /\ UNCHANGED <<open_files, src, bin, bn, enc>>

CallGenerateKey ==
    /\ keys = <<>>
    /\ last = Idle
    /\ \E size \in KeySizes, new_ok \in BOOLEAN, params_ok \in BOOLEAN,
          key_ok \in BOOLEAN,
          gen \in [p : GenValues, q : GenValues, g : GenValues,
                   pub_key : GenValues, priv_key : GenValues] :
         LET res == GenerateKey(size, new_ok, params_ok, key_ok, gen) IN
         /\ keys' = res.obj
         /\ last' = [op |-> "GenerateKey", arg |-> size,
                     ret |-> res.obj # <<>>, exit |-> res.exit,
                     out |-> <<>>, prim |-> <<>>]
    /\ UNCHANGED <<open_files, src, bin, bn, enc>>

CallGetAttributes ==
    /\ keys # <<>>
    /\ last = Idle
    /\ \E key \in OutArgs :
         LET res == GetAttributes(keys[1], key) IN
         last' = [op |-> "GetAttributes", arg |-> key, ret |-> res.ret,
                  exit |-> res.exit, out |-> res.out, prim |-> <<>>]
    /\ UNCHANGED <<keys, open_files, src, bin, bn, enc>>

CallGetPublicAttributes ==
    /\ keys # <<>>
    /\ last = Idle
    /\ \E key \in OutArgs :
         LET res == GetPublicAttributes(keys[1], key) IN
         last' = [op |-> "GetPublicAttributes", arg |-> key, ret |-> res.ret,
                  exit |-> res.exit, out |-> res.out, prim |-> <<>>]
    /\ UNCHANGED <<keys, open_files, src, bin, bn, enc>>

CallWriteKeyToPEMFile ==
    /\ keys # <<>>
    /\ last = Idle
    /\ open_files < MaxOpen
    /\ \E path \in Paths, dest_file_ok \in BOOLEAN, return_value \in {0, 1} :
         LET res == WriteKeyToPEMFile(keys[1], path, dest_file_ok,
                                      return_value) IN
         /\ open_files' = open_files + res.opened - res.closed
         /\ last' = [op |-> "WriteKeyToPEMFile",
                     arg |-> [path |-> path, dest_file_ok |-> dest_file_ok],
                     ret |-> res.ret, exit |-> res.exit, out |-> <<>>,
                     prim |-> res.prim]
    /\ UNCHANGED <<keys, src, bin, bn, enc>>

CallSign ==
    /\ keys # <<>>
    /\ last = Idle
    /\ \E message_digest \in Digests, signature \in SigArgs,
          sign_ok \in BOOLEAN, produced \in Signatures :
         LET res == Sign(keys[1], message_digest, signature, sign_ok,
                         produced) IN
         last' = [op |-> "Sign",
                  arg |-> [message_digest |-> message_digest,
                           signature |-> signature],
                  ret |-> res.ret, exit |-> res.exit, out |-> res.out,
                  prim |-> res.prim]
    /\ UNCHANGED <<keys, open_files, src, bin, bn, enc>>

CallVerify ==
    /\ keys # <<>>
    /\ last = Idle
    /\ \E message_digest \in Digests, signature \in Signatures,
          ret_val \in {1, 0, -1} :
         LET res == Verify(keys[1], message_digest, signature, ret_val) IN
         last' = [op |-> "Verify",
                  arg |-> [message_digest |-> message_digest,
                           signature |-> signature, ret_val |-> ret_val],
                  ret |-> res.ret, exit |-> res.exit, out |-> <<>>,
                  prim |-> res.prim]
    /\ UNCHANGED <<keys, open_files, src, bin, bn, enc>>

CallEquals ==
    /\ keys # <<>>
    /\ last = Idle
    /\ \E rhs \in KeyObjects \cup {keys[1]} :
         LET res == Equals(keys[1], rhs) IN
         last' = [op |-> "Equals", arg |-> rhs, ret |-> res.ret,
                  exit |-> res.exit, out |-> <<>>, prim |-> <<>>]
    /\ UNCHANGED <<keys, open_files, src, bin, bn, enc>>

\* The caller takes the result of the call.
Return ==
    /\ last # Idle
    /\ last' = Idle
    /\ UNCHANGED <<keys, open_files, src, bin, bn, enc>>

\* Create on any record of the model.
CallCreateAny ==
    /\ keys = <<>>
    /\ last = Idle
    /\ \E r \in Records : CallCreate(r)

Next ==
    \/ CallCreateAny
    \/ CallGenerateKey
    \/ CallGetAttributes
    \/ CallGetPublicAttributes
    \/ CallWriteKeyToPEMFile
    \/ CallSign
    \/ CallVerify
    \/ CallEquals
    \/ Return

Spec == Init /\ [][Next]_vars

(***************************************************************************)
(* Round-trip runs: the caller holds one record src, imports it and reads  *)
(* the attributes back.                                                    *)
(***************************************************************************)
InitRT ==
    /\ keys = <<>>
    /\ last = Idle
    /\ open_files = 0
    /\ src \in Records
    /\ bin = <<>>
    /\ bn = NULL
    /\ enc = <<>>

NextRT ==
    \/ CallCreate(src)
    \/ CallGetAttributes
    \/ CallGetPublicAttributes
    \/ Return

SpecRT == InitRT /\ [][NextRT]_vars

(***************************************************************************)
(* Codec runs: a byte string goes through BN_bin2bn as in Create, and the  *)
(* BIGNUM back to a string as in GetPublicAttributes.                      *)
(***************************************************************************)
InitCodec ==
    /\ keys = <<>>
    /\ last = Idle
    /\ open_files = 0
    /\ src = EmptyRecord
    /\ bin \in ByteStrings
    /\ bn = NULL
    /\ enc = <<>>

CodecBin2bn ==
    /\ bn = NULL
    /\ bn' = Bin2bn(bin, FALSE)
    /\ UNCHANGED <<keys, last, open_files, src, bin, enc>>

CodecBnToString ==
    /\ bn # NULL
    /\ enc = <<>>
    /\ enc' = BnToString(bn)
    /\ UNCHANGED <<keys, last, open_files, src, bin, bn>>

NextCodec == CodecBin2bn \/ CodecBnToString

SpecCodec == InitCodec /\ [][NextCodec]_vars

(***************************************************************************)
(* The properties checked.                                                 *)
(***************************************************************************)
\* A minimal big-endian encoding of a positive integer.
MinimalPositive(s) == s # <<>> /\ s[1] # 0

ValidPublic(r) ==
    /\ MinimalPositive(r.p)
    /\ MinimalPositive(r.q)
    /\ MinimalPositive(r.g)
    /\ MinimalPositive(r.y)

ValidRecord(r) == ValidPublic(r) /\ MinimalPositive(r.x)

\* C1: Verify returns true when DSA_verify reports valid (1), false when it
\* reports a clean invalid signature (0), and on a DSA_verify error (-1)
\* gives the caller an outcome that is neither true nor false.
C1_VerifyThreeOutcomes ==
    last.op = "Verify" =>
        /\ (last.arg.ret_val = 1 => last.ret = TRUE)
        /\ (last.arg.ret_val = 0 => last.ret = FALSE)
        /\ (last.arg.ret_val = -1 => last.ret \notin {TRUE, FALSE})

\* C2: Create returns no object whenever p, q, g or y of the record decodes
\* to a non-positive value, whatever private_key is.
C2_CreateRejectsNonPositive ==
    (/\ last.op = "Create"
     /\ \/ BN_bin2bn(last.arg.key.p) <= 0
        \/ BN_bin2bn(last.arg.key.q) <= 0
        \/ BN_bin2bn(last.arg.key.g) <= 0
        \/ BN_bin2bn(last.arg.key.y) <= 0)
    => (~last.ret /\ keys = <<>>)

\* C3: Create(record, true) on a record without x returns no object, and no
\* object with the private flag set comes from such a record.
C3_CreateMissingX ==
    (last.op = "Create" /\ last.arg.private_key /\ last.arg.key.x = <<>>)
    => (~last.ret /\ keys = <<>>)

\* C4: for every record src whose five fields are minimal encodings of
\* positive integers, Create(src, true) returns an object (when no
\* allocation of the library fails), and GetAttributes on that object
\* succeeds and leaves in the output record exactly src, field for field.
C4_RoundTrip ==
    /\ (/\ last.op = "Create"
        /\ last.arg.private_key
        /\ last.arg.fail = 0
        /\ ValidRecord(src))
       => (last.ret /\ keys # <<>> /\ keys[1].private_key_)
    /\ (/\ last.op = "GetAttributes"
        /\ last.arg # <<>>
        /\ keys[1].private_key_
        /\ ValidRecord(src))
       => (last.ret /\ last.out = <<src>>)

\* C4 witness: a valid record with different fields was imported as a
\* private key and read back into a used output record.
C4_Witness ==
    /\ last.op = "GetAttributes"
    /\ last.arg = <<StaleRecord>>
    /\ ValidRecord(src)
    /\ src.p # src.q
    /\ src.g # src.x
    /\ last.ret
    /\ last.out = <<src>>

\* C5 as stated: for every byte string without a leading zero byte, and for
\* the single zero byte, the string read back is the string put in, and the
\* value zero is read back as a single zero byte.
C5_AsStated ==
    enc # <<>> =>
        /\ (LeadingZeros(bin) = 0 \/ bin = <<0>>) => enc[1] = bin
        /\ bn = 0 => enc[1] = <<0>>

\* C5 amended: for every byte string without a leading zero byte, the empty
\* string included, the string read back is the string put in; the value
\* zero is read back as the empty string; and any byte string is read back
\* stripped of all its leading zero bytes.
C5_CodecInverse ==
    /\ bn # NULL => bn = BN_bin2bn(bin)
    /\ enc # <<>> =>
        /\ enc[1] = StripLeadingZeros(bin)
        /\ LeadingZeros(bin) = 0 => enc[1] = bin
        /\ bn = 0 => enc[1] = <<>>

\* C5 witness: a string of several bytes with a leading zero byte was read
\* back as its last bytes.
C5_Witness ==
    /\ enc # <<>>
    /\ LeadingZeros(bin) = 1
    /\ Len(enc[1]) >= 2
    /\ enc[1] = Tail(bin)

\* C6: on an object without the private flag, Sign and GetAttributes return
\* false at the private-key test, call no primitive and leave the caller's
\* signature string and output record as they were.
C6_PublicKeyCannotSignOrExport ==
    (last.op \in {"Sign", "GetAttributes"} /\ ~keys[1].private_key_) =>
        /\ ~last.ret
        /\ last.prim = <<>>
        /\ last.op = "Sign" =>
            /\ last.exit = 199
            /\ last.out = last.arg.signature
        /\ last.op = "GetAttributes" =>
            /\ last.out = last.arg
            /\ last.arg # <<>> => last.exit = 113

\* C6 witness: Sign was called on a public-only object with a signature
\* string that already held bytes.
C6_Witness ==
    /\ last.op = "Sign"
    /\ ~keys[1].private_key_
    /\ last.arg.signature = <<<<48, 2>>>>
    /\ ~last.ret

\* C7: no file handle opened by WriteKeyToPEMFile stays open after the
\* call: the number of open handles is zero in every state.
C7_NoOpenHandles == open_files = 0

\* C8 as stated: after a successful GetPublicAttributes the output record
\* has no x, whatever it held before.
C8_AsStated ==
    (last.op = "GetPublicAttributes" /\ last.ret) => last.out[1].x = <<>>

\* C8 amended: a successful GetPublicAttributes leaves in the output record
\* the encodings of the object's p, q, g and pub_key, whatever the object's
\* private flag, and leaves x as the output record held it before the call
\* (absent in a fresh record); so for a record src with valid public fields
\* the output equals src's p, q, g, y, with no x when the record was fresh.
C8_PublicAttributes ==
    (last.op = "GetPublicAttributes" /\ last.ret) =>
        /\ last.arg # <<>>
        /\ last.out[1].p = BN_bn2bin(keys[1].key_.p)
        /\ last.out[1].q = BN_bn2bin(keys[1].key_.q)
        /\ last.out[1].g = BN_bn2bin(keys[1].key_.g)
        /\ last.out[1].y = BN_bn2bin(keys[1].key_.pub_key)
        /\ last.out[1].x = last.arg[1].x
        /\ ValidPublic(src) =>
            last.out[1] = [p |-> src.p, q |-> src.q, g |-> src.g,
                           y |-> src.y, x |-> last.arg[1].x]

\* C8 witness: the public attributes of a public-only object imported from
\* a valid record were read into a fresh record.
C8_Witness ==
    /\ last.op = "GetPublicAttributes"
    /\ last.ret
    /\ ~keys[1].private_key_
    /\ last.arg = <<EmptyRecord>>
    /\ ValidPublic(src)
    /\ src.q # src.g
    /\ last.out[1] = [p |-> src.p, q |-> src.q, g |-> src.g, y |-> src.y,
                      x |-> <<>>]

\* C9: Equals is true exactly when the private flags agree, p, q, g and
\* pub_key are numerically equal and, for two private keys, priv_key is
\* numerically equal too; and an object equals itself.
C9_Equals ==
    last.op = "Equals" =>
        LET a == keys[1]
            b == last.arg
        IN  /\ last.ret <=>
                /\ a.private_key_ = b.private_key_
                /\ a.key_.p = b.key_.p
                /\ a.key_.q = b.key_.q
                /\ a.key_.g = b.key_.g
                /\ a.key_.pub_key = b.key_.pub_key
                /\ (a.private_key_ /\ b.private_key_)
                    => a.key_.priv_key = b.key_.priv_key
            /\ a = b => last.ret

\* C9 witness: two objects with the same public fields and different
\* private flags were compared, and found different.
C9_Witness ==
    /\ last.op = "Equals"
    /\ keys[1].private_key_ # last.arg.private_key_
    /\ keys[1].key_.p = last.arg.key_.p
    /\ keys[1].key_.q = last.arg.key_.q
    /\ keys[1].key_.g = last.arg.key_.g
    /\ keys[1].key_.pub_key = last.arg.key_.pub_key
    /\ ~last.ret

\* C10: every object the caller holds has p, q, g and pub_key set, and
\* priv_key set when its private flag is; a Create or GenerateKey that
\* fails leaves the caller with no object; GenerateKey only returns
\* objects with the private flag.
C10_ObjectsPopulated ==
    /\ \A i \in DOMAIN keys :
        /\ keys[i].key_.p # NULL
        /\ keys[i].key_.q # NULL
        /\ keys[i].key_.g # NULL
        /\ keys[i].key_.pub_key # NULL
        /\ keys[i].private_key_ => keys[i].key_.priv_key # NULL
    /\ (last.op \in {"Create", "GenerateKey"} /\ ~last.ret) => keys = <<>>
    /\ (last.op \in {"Create", "GenerateKey"} /\ last.ret) => Len(keys) = 1
    /\ (last.op = "GenerateKey" /\ last.ret) => keys[1].private_key_

\* C10 witness: Create with private_key = true failed at the allocation of
\* priv_key, after p, q, g and pub_key were set, and returned no object.
C10_Witness ==
    /\ last.op = "Create"
    /\ last.arg.private_key
    /\ last.arg.fail = 6
    /\ ~last.ret
    /\ keys = <<>>

====
